---- MODULE Spec2Model ----
(***************************************************************************)
(* Buffer pool manager of InterchangeDB: page table, frames, free list,   *)
(* FIFO replacer, disk manager and the page guards.                       *)
(*                                                                         *)
(* Every step of the code is a function from a state record to a state    *)
(* record.  The concurrent specification Spec takes one step of one       *)
(* thread at a time (one step per atomic access or per critical section   *)
(* of a lock); the single-threaded specification SeqSpec runs a whole     *)
(* call of the public API to its return as one action.                    *)
(***************************************************************************)
EXTENDS Integers, Sequences, FiniteSets, Bags, TLC

\* ---------------------------------------------------------------- bounds
\* pools of 1..PoolSize frames
PoolSize == 2
\* pages the database file can grow to; it starts with InitPages
MaxPages == 2
InitPages == 1
\* a page's bytes are one value of 0..MaxVal
MaxVal == 1
\* guards outstanding or being acquired at a time
MaxGuards == 3
\* calls the threads of Spec and FetchSpec make in all
MaxCalls == 5
NumThreads == 2
\* frame ids handed to a FifoReplacer driven on its own
FifoFrames == 4

\* Option::None of an Option<PageId> / Option<FrameId>
None == -1

Threads == 1..NumThreads
\* page ids a caller may pass: MaxPages itself is never allocated on disk
PageIds == 0..MaxPages
Vals == 0..MaxVal
FrameIds == 0..(FifoFrames - 1)

VARIABLES
    page_table,       \* BufferPoolManager.page_table : PageId -> FrameId or None
    free_list,        \* BufferPoolManager.free_list  : stack of FrameId
    replacer,         \* FifoReplacer: queue, in_queue, evictable
    frames,           \* Frame: page_id, pin_count, is_dirty, page data, RwLock state
    disk,             \* DiskManager: page_count and the bytes of each page
    pt_readers,       \* threads holding page_table.read()
    pc,               \* position of each thread
    local,            \* local variables of the call a thread is in
    guards,           \* the page guards each thread holds (a bag)
    calls,            \* calls made so far (Spec bounds them by MaxCalls)
    last_written,     \* history: bytes left by the last write guard released on a page
    deleted,          \* history: the pages delete_page has removed from the pool
    first_access      \* history: which tracked frame was first accessed before which

\* BufferPoolManager.frames is a Vec of pool_size frames
Frames == DOMAIN frames
pool_size == Cardinality(Frames)

vars == <<page_table, free_list, replacer, frames, disk, pt_readers, pc, local,
          guards, calls, last_written, deleted, first_access>>

\* The state as one record, so that steps compose.
St ==
    [page_table |-> page_table, free_list |-> free_list, replacer |-> replacer,
     frames |-> frames, disk |-> disk, pt_readers |-> pt_readers, pc |-> pc,
     local |-> local, guards |-> guards, last_written |-> last_written,
     deleted |-> deleted]

\* ---------------------------------------------------------------- Frame
NewFrame ==
    [page_id |-> None, pin_count |-> 0, is_dirty |-> FALSE, data |-> 0,
     readers |-> 0, writer |-> FALSE]

\* AtomicU32 pin_count.  A count is kept as its residue modulo 2^32 in signed
\* form (-1 stands for u32::MAX, what fetch_sub leaves when it wraps below 0),
\* so pin_count > 0 on the u32 is pin_count # 0 here.
pin(fr) == [fr EXCEPT !.pin_count = @ + 1]

\* fetch_sub(1); the caller's assert!(old > 0) panics when the old count was 0
unpin(fr) == [fr EXCEPT !.pin_count = @ - 1]

is_pinned(fr) == fr.pin_count # 0

is_evictable(fr) == fr.page_id # None /\ ~is_pinned(fr)

\* ---------------------------------------------------------------- FifoReplacer
NewReplacer == [queue |-> <<>>, in_queue |-> {}, evictable |-> {}]

\* record_access that moves a frame accessed again to the back of the queue
record_access_to_back(r, f) ==
    [r EXCEPT !.queue = Append(SelectSeq(@, LAMBDA x : x # f), f),
              !.in_queue = @ \cup {f}]

record_access(r, f) ==
    IF f \notin r.in_queue
    THEN [r EXCEPT !.queue = Append(@, f), !.in_queue = @ \cup {f}]
    ELSE r

set_evictable(r, f, e) ==
    IF e THEN [r EXCEPT !.evictable = @ \cup {f}]
         ELSE [r EXCEPT !.evictable = @ \ {f}]

\* position (1-based) of the first evictable frame of the queue, 0 if none
position(r) ==
    LET hits == {i \in 1..Len(r.queue) : r.queue[i] \in r.evictable}
    IN IF hits = {} THEN 0 ELSE CHOOSE i \in hits : \A j \in hits : i <= j

RemoveAt(q, i) == SubSeq(q, 1, i - 1) \o SubSeq(q, i + 1, Len(q))

\* the frame evict() returns, None if no queued frame is evictable
evict_victim(r) == IF position(r) = 0 THEN None ELSE r.queue[position(r)]

\* evict() that pops the frames it searches past
evict_destructive(r) ==
    IF position(r) = 0
    THEN [queue |-> <<>>, in_queue |-> {}, evictable |-> r.evictable]
    ELSE [queue |-> SubSeq(r.queue, position(r) + 1, Len(r.queue)),
          in_queue |-> {r.queue[i] : i \in (position(r) + 1)..Len(r.queue)},
          evictable |-> r.evictable \ {r.queue[position(r)]}]

\* the replacer after evict()
evict(r) ==
    IF position(r) = 0 THEN r
    ELSE [queue |-> RemoveAt(r.queue, position(r)),
          in_queue |-> r.in_queue \ {r.queue[position(r)]},
          evictable |-> r.evictable \ {r.queue[position(r)]}]

remove(r, f) ==
    [queue |-> IF f \in r.in_queue THEN SelectSeq(r.queue, LAMBDA x : x # f)
               ELSE r.queue,
     in_queue |-> r.in_queue \ {f},
     evictable |-> r.evictable \ {f}]

size(r) == Cardinality(r.evictable)

\* History of a replacer: <<f, g>> is in h when f and g are tracked and f's
\* first record_access since f was last evicted or removed came no later than
\* g's (so f is tracked exactly when <<f, f>> is in h).
Tracked(h) == {x[1] : x \in {y \in h : y[1] = y[2]}}

FirstAccessed(h, f) ==
    IF f \in Tracked(h) THEN h
    ELSE h \cup {<<g, f>> : g \in Tracked(h)} \cup {<<f, f>>}

Untracked(h, f) == {x \in h : x[1] # f /\ x[2] # f}

\* ---------------------------------------------------------------- thread locals
\* BufferPoolStats::new(): all counters at zero
NewStats ==
    [cache_hits |-> 0, cache_misses |-> 0, evictions |-> 0, pages_read |-> 0,
     pages_written |-> 0]

\* The counters are AtomicU64s that are only ever added to, and nothing in the
\* pool reads them: each call keeps in `stats` what it has added to them so
\* far, and in `io` the read_page and write_page calls it has made on the
\* DiskManager.
NoLocal ==
    [op |-> "none", page_id |-> None, write |-> FALSE, frame_id |-> None,
     old_page_id |-> None, page_data |-> 0, new_pin_count |-> 0,
     pages |-> <<>>, stats |-> NewStats, io |-> [reads |-> 0, writes |-> 0],
     status |-> "none"]

L(s, t) == s.local[t]

Goto(s, t, label) == [s EXCEPT !.pc[t] = label]

\* the call returns `status` to its caller
Return(s, t, status) ==
    [s EXCEPT !.pc[t] = "ret",
              !.local[t] = [NoLocal EXCEPT !.op = L(s, t).op, !.page_id = L(s, t).page_id,
                                           !.write = L(s, t).write,
                                           !.frame_id = L(s, t).frame_id,
                                           !.stats = L(s, t).stats,
                                           !.io = L(s, t).io,
                                           !.status = status]]

\* the caller has taken the result of a call that returned: its locals are gone
Forget(s) ==
    [s EXCEPT !.pc = [t \in Threads |-> IF s.pc[t] = "ret" THEN "idle" ELSE s.pc[t]],
              !.local = [t \in Threads |-> IF s.pc[t] = "ret" THEN NoLocal ELSE s.local[t]]]

\* the next state is s, once calls that returned are forgotten
Set(s) ==
    \E r \in {Forget(s)} :
        /\ page_table' = r.page_table
        /\ free_list' = r.free_list
        /\ replacer' = r.replacer
        /\ frames' = r.frames
        /\ disk' = r.disk
        /\ pt_readers' = r.pt_readers
        /\ pc' = r.pc
        /\ local' = r.local
        /\ guards' = r.guards
        /\ last_written' = r.last_written
        /\ deleted' = r.deleted
        /\ UNCHANGED first_access

Begin(s, t, op, p, w) ==
    [s EXCEPT !.local[t] = [NoLocal EXCEPT !.op = op, !.page_id = p, !.write = w]]

\* self.stats.<counter>.fetch_add(1, Ordering::Relaxed)
fetch_add(st, counter) == [st EXCEPT ![counter] = @ + 1]

\* where get_free_frame's caller goes on once it has a frame
AfterFrame(s, t) ==
    IF L(s, t).op = "new_page" THEN "new_page_allocate" ELSE "miss_read_page"

\* ---------------------------------------------------------------- fetch
\* fetch_page_internal: look the page up under page_table.read().  On a hit the
\* read lock stays held while handle_cache_hit runs, and its frame.pin() is the
\* first access another thread can see: taking the read lock and the lookup
\* under it commute with the steps of other threads, so they are one step
\* with the pin.  On a miss handle_cache_miss starts by counting it.
fetch_page_internal(s, t, p, w) ==
    LET s0 == Begin(s, t, IF w THEN "fetch_write" ELSE "fetch_read", p, w)
        f == s.page_table[p]
    IN IF f # None
       THEN [s0 EXCEPT !.pt_readers = @ \cup {t},
                       !.local[t].frame_id = f,
                       !.frames[f] = pin(@),
                       !.pc[t] = "handle_cache_hit"]
       ELSE [s0 EXCEPT !.local[t].stats = fetch_add(@, "cache_misses"),
                       !.pc[t] = "handle_cache_miss"]

\* handle_cache_hit that counts the fetch as a miss
handle_cache_hit_as_miss(s, t) ==
    [s EXCEPT !.replacer = set_evictable(record_access(@, L(s, t).frame_id),
                                         L(s, t).frame_id, FALSE),
              !.local[t].stats = fetch_add(@, "cache_misses"),
              !.pt_readers = @ \ {t},
              !.pc[t] = "fetch_lock"]

\* handle_cache_hit that returns with page_table.read() still held
handle_cache_hit_holding(s, t) ==
    [s EXCEPT !.replacer = set_evictable(record_access(@, L(s, t).frame_id),
                                         L(s, t).frame_id, FALSE),
              !.local[t].stats = fetch_add(@, "cache_hits"),
              !.pc[t] = "fetch_lock"]

\* handle_cache_hit: the replacer update and cache_hits; then
\* fetch_page_internal returns and drops page_table.read()
handle_cache_hit(s, t) ==
    [s EXCEPT !.replacer = set_evictable(record_access(@, L(s, t).frame_id),
                                         L(s, t).frame_id, FALSE),
              !.local[t].stats = fetch_add(@, "cache_hits"),
              !.pt_readers = @ \ {t},
              !.pc[t] = "fetch_lock"]

\* get_free_frame: pop the free list, else go and evict
get_free_frame(s, t) ==
    IF Len(s.free_list) > 0
    THEN [s EXCEPT !.free_list = SubSeq(@, 1, Len(@) - 1),
                   !.local[t].frame_id = s.free_list[Len(s.free_list)],
                   !.pc[t] = AfterFrame(s, t)]
    ELSE Goto(s, t, "evict_page")

\* evict_page: ask the replacer for a victim; count the eviction
evict_page(s, t) ==
    IF evict_victim(s.replacer) = None
    THEN Return(s, t, "NoFreeFrames")
    ELSE [s EXCEPT !.replacer = evict(@),
                   !.local[t].frame_id = evict_victim(s.replacer),
                   !.local[t].stats = fetch_add(@, "evictions"),
                   !.pc[t] = "evict_page_id"]

\* evict_page: let old_page_id = frame.page_id()
evict_page_id(s, t) ==
    LET f == L(s, t).frame_id
        old == s.frames[f].page_id
    IN [s EXCEPT !.local[t].old_page_id = old, !.pc[t] = "evict_is_dirty"]

\* evict_page that drops the victim's page without looking at its dirty flag
evict_without_flush(s, t) == Goto(s, t, "evict_remove")

\* evict_page: if frame.is_dirty() and the frame has a page, flush it
evict_is_dirty(s, t) ==
    IF s.frames[L(s, t).frame_id].is_dirty /\ L(s, t).old_page_id # None
    THEN Goto(s, t, "flush_frame")
    ELSE Goto(s, t, "evict_remove")

\* the page id flush_frame was called with
FlushPid(s, t) ==
    IF L(s, t).op \in {"flush_page", "flush_all_pages"} THEN L(s, t).page_id
    ELSE L(s, t).old_page_id

\* flush_frame returns Ok to flush_page, to flush_all_pages or to evict_page
FlushDone(s, t) ==
    CASE L(s, t).op = "flush_page" -> Return(s, t, "Ok")
      [] L(s, t).op = "flush_all_pages" -> Goto(s, t, "flush_all_next")
      [] OTHER -> Goto(s, t, "evict_remove")

\* flush_frame that writes the page whether or not the frame is dirty
flush_frame_always(s, t) == Goto(s, t, "flush_write")

\* flush_frame: if frame.is_dirty()
flush_frame(s, t) ==
    IF s.frames[L(s, t).frame_id].is_dirty THEN Goto(s, t, "flush_write")
    ELSE FlushDone(s, t)

\* DiskManager: page_count, the bytes of each page, and whether the file
\* system under it works: while it does not, the seek, write_all, read_exact
\* or sync_all of an operation on an existing page fails with an io::Error and
\* the file is left as it was.
\* DiskManager::write_page
write_page(d, pid, data) == [d EXCEPT !.data[pid] = data]

\* flush_frame: let page = frame.page(); dm.write_page(page_id, &page)?;
\* drop(page).  The shared page lock is taken and released around the one write
\* under the disk lock, so the three are one step, taken when no writer holds
\* the page.
flush_write(s, t) ==
    LET f == L(s, t).frame_id
        pid == FlushPid(s, t)
    IN IF pid >= s.disk.page_count THEN Return(s, t, "PageNotFound")
       ELSE IF ~s.disk.ok THEN Return(s, t, "Io")
       ELSE [s EXCEPT !.disk = write_page(@, pid, s.frames[f].data),
                      !.local[t].io.writes = @ + 1,
                      !.pc[t] = "flush_clear_dirty"]

\* flush_frame: frame.clear_dirty(); pages_written
flush_clear_dirty(s, t) ==
    FlushDone([s EXCEPT !.frames[L(s, t).frame_id].is_dirty = FALSE,
                        !.local[t].stats = fetch_add(@, "pages_written")], t)

\* evict_page: remove the old page from the page table under page_table.write()
evict_remove(s, t) ==
    IF L(s, t).old_page_id # None
    THEN [s EXCEPT !.page_table[L(s, t).old_page_id] = None,
                   !.pc[t] = "evict_clear_dirty"]
    ELSE Goto(s, t, "evict_clear_dirty")

\* evict_page: frame.clear_dirty()
evict_clear_dirty(s, t) ==
    [s EXCEPT !.frames[L(s, t).frame_id].is_dirty = FALSE,
              !.pc[t] = "evict_set_page_id"]

\* evict_page: frame.set_page_id(None); the frame goes to get_free_frame's caller
evict_set_page_id(s, t) ==
    [s EXCEPT !.frames[L(s, t).frame_id].page_id = None, !.pc[t] = AfterFrame(s, t)]

\* handle_cache_miss: dm.read_page(page_id)? under the disk lock; pages_read
miss_read_page(s, t) ==
    IF L(s, t).page_id >= s.disk.page_count THEN Return(s, t, "PageNotFound")
    ELSE IF ~s.disk.ok THEN Return(s, t, "Io")
    ELSE [s EXCEPT !.local[t].page_data = s.disk.data[L(s, t).page_id],
                   !.local[t].io.reads = @ + 1,
                   !.local[t].stats = fetch_add(@, "pages_read"),
                   !.pc[t] = "miss_copy"]

\* handle_cache_miss: copy the bytes into the frame under frame.page_mut()
miss_copy(s, t) ==
    [s EXCEPT !.frames[L(s, t).frame_id].data = L(s, t).page_data,
              !.pc[t] = "install_set_page_id"]

\* handle_cache_miss / new_page: frame.set_page_id(Some(page_id))
install_set_page_id(s, t) ==
    [s EXCEPT !.frames[L(s, t).frame_id].page_id = L(s, t).page_id,
              !.pc[t] = "install_pin"]

\* handle_cache_miss / new_page: frame.pin()
install_pin(s, t) ==
    [s EXCEPT !.frames[L(s, t).frame_id] = pin(@), !.pc[t] = "install_insert"]

\* handle_cache_miss / new_page: pt.insert(page_id, frame_id) under page_table.write()
install_insert(s, t) ==
    [s EXCEPT !.page_table[L(s, t).page_id] = L(s, t).frame_id,
              !.pc[t] = "install_replacer"]

\* handle_cache_miss / new_page: record_access, set_evictable(false)
install_replacer(s, t) ==
    [s EXCEPT !.replacer = set_evictable(record_access(@, L(s, t).frame_id),
                                         L(s, t).frame_id, FALSE),
              !.pc[t] = "fetch_lock"]

\* fetch_page_read / fetch_page_write / new_page: take the page lock, build the guard
fetch_lock(s, t) ==
    LET f == L(s, t).frame_id
        g == [page_id |-> L(s, t).page_id, frame_id |-> f, write |-> L(s, t).write,
              lock |-> TRUE, dropped |-> FALSE]
    IN Return([s EXCEPT !.frames[f].readers = IF L(s, t).write THEN @ ELSE @ + 1,
                        !.frames[f].writer = IF L(s, t).write THEN TRUE ELSE @,
                        !.guards[t] = @ (+) SetToBag({g})],
              t, "Ok")

\* ---------------------------------------------------------------- new_page
new_page(s, t) == get_free_frame(Begin(s, t, "new_page", None, TRUE), t)

\* DiskManager::allocate_page
allocate_page(d) ==
    [d EXCEPT !.page_count = @ + 1, !.data[d.page_count] = 0]

\* new_page: dm.allocate_page()? under the disk lock
new_page_allocate(s, t) ==
    IF ~s.disk.ok THEN Return(s, t, "Io")
    ELSE [s EXCEPT !.local[t].page_id = s.disk.page_count,
                   !.disk = allocate_page(@),
                   !.pc[t] = "new_page_reset"]

\* new_page that leaves in the frame the bytes it held
new_page_no_reset(s, t) == Goto(s, t, "install_set_page_id")

\* new_page: frame.page_mut().reset()
new_page_reset(s, t) ==
    [s EXCEPT !.frames[L(s, t).frame_id].data = 0, !.pc[t] = "install_set_page_id"]

\* ---------------------------------------------------------------- delete_page
\* delete_page that does not look at the pin count
delete_page_pinned(s, t, p) ==
    LET s0 == Begin(s, t, "delete_page", p, FALSE)
        f == s.page_table[p]
    IN IF f = None THEN Return(s0, t, "Ok")
       ELSE [s0 EXCEPT !.page_table[p] = None,
                       !.deleted = @ \cup {p},
                       !.local[t].frame_id = f,
                       !.pc[t] = "delete_set_page_id"]

\* delete_page: the section under page_table.write(): lookup, is_pinned, remove
delete_page(s, t, p) ==
    LET s0 == Begin(s, t, "delete_page", p, FALSE)
        f == s.page_table[p]
    IN IF f = None THEN Return(s0, t, "Ok")
       ELSE IF is_pinned(s.frames[f]) THEN Return(s0, t, "PageNotPinned")
       ELSE [s0 EXCEPT !.page_table[p] = None,
                       !.deleted = @ \cup {p},
                       !.local[t].frame_id = f,
                       !.pc[t] = "delete_set_page_id"]

\* delete_page: frame.set_page_id(None)
delete_set_page_id(s, t) ==
    [s EXCEPT !.frames[L(s, t).frame_id].page_id = None,
              !.pc[t] = "delete_clear_dirty"]

\* delete_page that writes a dirty page to disk before it clears the flag
delete_flush_dirty(s, t) ==
    LET f == L(s, t).frame_id
        flush == s.frames[f].is_dirty /\ L(s, t).page_id < s.disk.page_count
    IN [s EXCEPT !.disk = IF flush THEN write_page(@, L(s, t).page_id, s.frames[f].data)
                          ELSE @,
                 !.local[t].io.writes = IF flush THEN @ + 1 ELSE @,
                 !.frames[f].is_dirty = FALSE,
                 !.pc[t] = "delete_replacer"]

\* delete_page: frame.clear_dirty()
delete_clear_dirty(s, t) ==
    [s EXCEPT !.frames[L(s, t).frame_id].is_dirty = FALSE,
              !.pc[t] = "delete_replacer"]

\* delete_page that leaves the frame in the replacer
delete_skip_replacer(s, t) == Goto(s, t, "delete_free_list")

\* delete_page: replacer.remove(frame_id)
delete_replacer(s, t) ==
    [s EXCEPT !.replacer = remove(@, L(s, t).frame_id), !.pc[t] = "delete_free_list"]

\* delete_page: fl.push(frame_id)
delete_free_list(s, t) ==
    Return([s EXCEPT !.free_list = Append(@, L(s, t).frame_id)], t, "Ok")

\* ---------------------------------------------------------------- flush_page
\* flush_page: look the page up under page_table.read(), then flush_frame
flush_page(s, t, p) ==
    LET s0 == Begin(s, t, "flush_page", p, FALSE)
    IN IF s.page_table[p] = None THEN Return(s0, t, "Ok")
       ELSE [s0 EXCEPT !.local[t].frame_id = s.page_table[p], !.pc[t] = "flush_frame"]

\* the orders in which a HashMap holding the keys S can be iterated
Orders(S) ==
    {q \in [1..Cardinality(S) -> S] : \A i, j \in DOMAIN q : i # j => q[i] # q[j]}

\* flush_all_pages: collect the (page_id, frame_id) pairs under
\* page_table.read(), in the order `order` the map iterates in
flush_all_pages(s, t, order) ==
    [Begin(s, t, "flush_all_pages", None, FALSE)
        EXCEPT !.local[t].pages = [i \in DOMAIN order |-> <<order[i], s.page_table[order[i]]>>],
               !.pc[t] = "flush_all_next"]

\* flush_all_pages: the loop: flush_frame(frame_id, page_id)? for the next pair
flush_all_next(s, t) ==
    IF L(s, t).pages = <<>> THEN Return(s, t, "Ok")
    ELSE [s EXCEPT !.local[t].page_id = Head(L(s, t).pages)[1],
                   !.local[t].frame_id = Head(L(s, t).pages)[2],
                   !.local[t].pages = Tail(@),
                   !.pc[t] = "flush_frame"]

\* ---------------------------------------------------------------- guards
\* A guard keeps the page lock in `lock`, an Option that is Some(_) from
\* new() until drop_guard takes it.
\* Deref of a read or write guard: self.lock.as_ref().expect(..) panics on
\* None; otherwise the caller has the page of the guard's frame to read
guard_read(s, t, g) ==
    LET s0 == Begin(s, t, "guard_read", g.page_id, g.write)
    IN IF ~g.lock THEN Goto(s0, t, "panicked")
       ELSE Return([s0 EXCEPT !.local[t].frame_id = g.frame_id], t, "Ok")

\* DerefMut of a write guard: the caller stores v in the page; on a guard
\* whose lock was taken by drop_guard the expect() panics
guard_write(s, t, g, v) ==
    LET s0 == Begin(s, t, "guard_write", g.page_id, TRUE)
    IN IF ~g.lock THEN Goto(s0, t, "panicked")
       ELSE Return([s0 EXCEPT !.frames[g.frame_id].data = v,
                              !.local[t].frame_id = g.frame_id], t, "Ok")

\* drop_guard that does not look at self.dropped
drop_guard_again(s, t, g) ==
    [Begin(s, t, "drop_guard", g.page_id, g.write)
        EXCEPT !.local[t].frame_id = g.frame_id,
               !.guards[t] = (@ (-) SetToBag({g})) (+) SetToBag({[g EXCEPT !.dropped = TRUE, !.lock = FALSE]}),
               !.frames[g.frame_id].readers = IF g.write THEN @ ELSE @ - 1,
               !.frames[g.frame_id].writer = IF g.write THEN FALSE ELSE @,
               !.pc[t] = IF g.write THEN "unpin_mark_dirty" ELSE "unpin_unpin"]

\* the guard g once drop_guard has run on it
Dropped(g) == [g EXCEPT !.dropped = TRUE, !.lock = FALSE]

\* drop_guard that does not release the page lock
drop_guard_keep_lock(s, t, g) ==
    LET s0 == Begin(s, t, "drop_guard", g.page_id, g.write)
    IN IF g.dropped THEN Return(s0, t, "Ok")
       ELSE [s0 EXCEPT !.local[t].frame_id = g.frame_id,
                       !.guards[t] = (@ (-) SetToBag({g}))
                                     (+) SetToBag({[g EXCEPT !.dropped = TRUE]}),
                       !.last_written =
                           IF g.write
                           THEN [@ EXCEPT ![g.page_id] = s.frames[g.frame_id].data]
                           ELSE @,
                       !.pc[t] = IF g.write THEN "unpin_mark_dirty" ELSE "unpin_unpin"]

\* drop_guard: if !self.dropped: dropped = true; lock.take() releases the page
\* lock; then unpin_page_internal(frame_id, is_dirty) is called
drop_guard(s, t, g) ==
    LET s0 == Begin(s, t, "drop_guard", g.page_id, g.write)
    IN IF g.dropped THEN Return(s0, t, "Ok")
       ELSE [s0 EXCEPT !.local[t].frame_id = g.frame_id,
                       !.guards[t] = (@ (-) SetToBag({g})) (+) SetToBag({Dropped(g)}),
                       !.frames[g.frame_id].readers = IF g.write THEN @ ELSE @ - 1,
                       !.frames[g.frame_id].writer = IF g.write THEN FALSE ELSE @,
                       !.last_written =
                           IF g.write
                           THEN [@ EXCEPT ![g.page_id] = s.frames[g.frame_id].data]
                           ELSE @,
                       !.pc[t] = IF g.write THEN "unpin_mark_dirty" ELSE "unpin_unpin"]

\* Drop::drop of a guard that goes out of scope: drop_guard(), and the guard
\* is gone
drop(s, t, g) ==
    [drop_guard(s, t, g) EXCEPT !.guards[t] = s.guards[t] (-) SetToBag({g})]

\* unpin_page_internal that ignores is_dirty
unpin_without_mark(s, t) == Goto(s, t, "unpin_unpin")

\* unpin_page_internal: if is_dirty { frame.mark_dirty() }
unpin_mark_dirty(s, t) ==
    [s EXCEPT !.frames[L(s, t).frame_id].is_dirty = TRUE, !.pc[t] = "unpin_unpin"]

\* unpin_page_internal: let new_pin_count = frame.unpin(), which panics on underflow
unpin_unpin(s, t) ==
    LET f == L(s, t).frame_id
        old == s.frames[f].pin_count
        s1 == [s EXCEPT !.frames[f] = unpin(@), !.local[t].new_pin_count = old - 1]
    IN IF old = 0 THEN Goto(s1, t, "panicked")
       ELSE IF old - 1 = 0 THEN Goto(s1, t, "unpin_set_evictable")
       ELSE Return(s1, t, "Ok")

\* unpin_page_internal: replacer.set_evictable(frame_id, true)
unpin_set_evictable(s, t) ==
    Return([s EXCEPT !.replacer = set_evictable(@, L(s, t).frame_id, TRUE)], t, "Ok")

\* ---------------------------------------------------------------- locks
\* parking_lot RwLock of a frame's page
PageLockFree(fr) == fr.readers = 0 /\ ~fr.writer

\* whether the step a thread is at can be taken (it is not waiting for a lock)
CanStep(s, t) ==
    LET l == L(s, t)
        at == s.pc[t]
    IN CASE at = "flush_write" -> ~s.frames[l.frame_id].writer
         [] at \in {"miss_copy", "new_page_reset"} -> PageLockFree(s.frames[l.frame_id])
         [] at = "fetch_lock" ->
                IF l.write THEN PageLockFree(s.frames[l.frame_id])
                ELSE ~s.frames[l.frame_id].writer
         [] at = "evict_remove" -> l.old_page_id = None \/ s.pt_readers = {}
         [] at = "install_insert" -> s.pt_readers = {}
         [] at \in {"idle", "ret", "panicked"} -> FALSE
         [] OTHER -> TRUE

\* the step a thread inside a call is at
Step(s, t) ==
    LET at == s.pc[t]
    IN CASE at = "handle_cache_hit" -> handle_cache_hit(s, t)
         [] at = "handle_cache_miss" -> get_free_frame(s, t)
         [] at = "evict_page" -> evict_page(s, t)
         [] at = "evict_page_id" -> evict_page_id(s, t)
         [] at = "evict_is_dirty" -> evict_is_dirty(s, t)
         [] at = "flush_frame" -> flush_frame(s, t)
         [] at = "flush_write" -> flush_write(s, t)
         [] at = "flush_clear_dirty" -> flush_clear_dirty(s, t)
         [] at = "evict_remove" -> evict_remove(s, t)
         [] at = "evict_clear_dirty" -> evict_clear_dirty(s, t)
         [] at = "evict_set_page_id" -> evict_set_page_id(s, t)
         [] at = "miss_read_page" -> miss_read_page(s, t)
         [] at = "miss_copy" -> miss_copy(s, t)
         [] at = "install_set_page_id" -> install_set_page_id(s, t)
         [] at = "install_pin" -> install_pin(s, t)
         [] at = "install_insert" -> install_insert(s, t)
         [] at = "install_replacer" -> install_replacer(s, t)
         [] at = "fetch_lock" -> fetch_lock(s, t)
         [] at = "new_page_allocate" -> new_page_allocate(s, t)
         [] at = "new_page_reset" -> new_page_reset(s, t)
         [] at = "delete_set_page_id" -> delete_set_page_id(s, t)
         [] at = "delete_clear_dirty" -> delete_clear_dirty(s, t)
         [] at = "delete_replacer" -> delete_replacer(s, t)
         [] at = "delete_free_list" -> delete_free_list(s, t)
         [] at = "flush_all_next" -> flush_all_next(s, t)
         [] at = "unpin_mark_dirty" -> unpin_mark_dirty(s, t)
         [] at = "unpin_unpin" -> unpin_unpin(s, t)
         [] at = "unpin_set_evictable" -> unpin_set_evictable(s, t)
         [] OTHER -> s

\* a call run on its own until it returns (or waits for ever, or panics)
RECURSIVE Run(_, _)
Run(s, t) == IF CanStep(s, t) THEN Run(Step(s, t), t) ELSE s

\* ---------------------------------------------------------------- Init
\* BufferPoolManager::new(n, disk_manager) for a pool of n frames over a
\* database file of InitPages pages
Init ==
    /\ page_table = [p \in PageIds |-> None]
    /\ \E n \in 1..PoolSize :
          /\ free_list = [i \in 1..n |-> i - 1]
          /\ frames = [f \in 0..(n - 1) |-> NewFrame]
    /\ replacer = NewReplacer
    /\ disk = [page_count |-> InitPages, data |-> [p \in 0..(MaxPages - 1) |-> 0],
               ok |-> TRUE]
    /\ pt_readers = {}
    /\ pc = [t \in Threads |-> "idle"]
    /\ local = [t \in Threads |-> NoLocal]
    /\ guards = [t \in Threads |-> EmptyBag]
    /\ calls = 0
    /\ last_written = [p \in PageIds |-> None]
    /\ deleted = {}
    /\ first_access = {}

\* guards outstanding or being acquired, over all threads
GuardsHeld(s) ==
    LET RECURSIVE Sum(_)
        Sum(T) == IF T = {} THEN 0
                  ELSE LET t == CHOOSE x \in T : TRUE
                       IN BagCardinality(s.guards[t]) + Sum(T \ {t})
    IN Sum(Threads)
       + Cardinality({t \in Threads :
                        s.local[t].op \in {"fetch_read", "fetch_write", "new_page"}})

\* allocations begun by new_page calls that have not reached the disk yet
PendingAllocations(s) ==
    Cardinality({t \in Threads : L(s, t).op = "new_page" /\ L(s, t).page_id = None
                                 /\ s.pc[t] \notin {"ret", "idle"}})

CanAllocate(s) == s.disk.page_count + PendingAllocations(s) < MaxPages

\* ---------------------------------------------------------------- Spec: steps of threads
At(t, label) == pc[t] = label /\ CanStep(St, t) /\ UNCHANGED calls

\* a thread that is in no call makes its next one
Idle(t) == pc[t] = "idle" /\ calls < MaxCalls /\ calls' = calls + 1

FetchPageInternal(t) ==
    /\ Idle(t) /\ GuardsHeld(St) < MaxGuards
    /\ \E p \in PageIds, w \in BOOLEAN : Set(fetch_page_internal(St, t, p, w))
HandleCacheHit(t) == At(t, "handle_cache_hit") /\ Set(handle_cache_hit(St, t))
HandleCacheMiss(t) == At(t, "handle_cache_miss") /\ Set(get_free_frame(St, t))
EvictPage(t) == At(t, "evict_page") /\ Set(evict_page(St, t))
EvictPageId(t) == At(t, "evict_page_id") /\ Set(evict_page_id(St, t))
EvictIsDirty(t) == At(t, "evict_is_dirty") /\ Set(evict_is_dirty(St, t))
FlushFrame(t) == At(t, "flush_frame") /\ Set(flush_frame(St, t))
FlushWrite(t) == At(t, "flush_write") /\ Set(flush_write(St, t))
FlushClearDirty(t) == At(t, "flush_clear_dirty") /\ Set(flush_clear_dirty(St, t))
EvictRemove(t) == At(t, "evict_remove") /\ Set(evict_remove(St, t))
EvictClearDirty(t) == At(t, "evict_clear_dirty") /\ Set(evict_clear_dirty(St, t))
EvictSetPageId(t) == At(t, "evict_set_page_id") /\ Set(evict_set_page_id(St, t))
MissReadPage(t) == At(t, "miss_read_page") /\ Set(miss_read_page(St, t))
MissCopy(t) == At(t, "miss_copy") /\ Set(miss_copy(St, t))
InstallSetPageId(t) == At(t, "install_set_page_id") /\ Set(install_set_page_id(St, t))
InstallPin(t) == At(t, "install_pin") /\ Set(install_pin(St, t))
InstallInsert(t) == At(t, "install_insert") /\ Set(install_insert(St, t))
InstallReplacer(t) == At(t, "install_replacer") /\ Set(install_replacer(St, t))
FetchLock(t) == At(t, "fetch_lock") /\ Set(fetch_lock(St, t))
NewPage(t) ==
    /\ Idle(t) /\ GuardsHeld(St) < MaxGuards /\ CanAllocate(St)
    /\ Set(new_page(St, t))
NewPageAllocate(t) == At(t, "new_page_allocate") /\ Set(new_page_allocate(St, t))
NewPageReset(t) == At(t, "new_page_reset") /\ Set(new_page_reset(St, t))
DeletePage(t) ==
    /\ Idle(t) /\ pt_readers = {}
    /\ \E p \in PageIds : Set(delete_page(St, t, p))
DeleteSetPageId(t) == At(t, "delete_set_page_id") /\ Set(delete_set_page_id(St, t))
DeleteClearDirty(t) == At(t, "delete_clear_dirty") /\ Set(delete_clear_dirty(St, t))
DeleteReplacer(t) == At(t, "delete_replacer") /\ Set(delete_replacer(St, t))
DeleteFreeList(t) == At(t, "delete_free_list") /\ Set(delete_free_list(St, t))
FlushPage(t) ==
    /\ Idle(t)
    /\ \E p \in PageIds : Set(flush_page(St, t, p))
GuardWrite(t) ==
    /\ Idle(t)
    /\ \E g \in BagToSet(guards[t]), v \in Vals :
          /\ g.write
          /\ Set(guard_write(St, t, g, v))
Drop(t) ==
    /\ Idle(t)
    /\ \E g \in BagToSet(guards[t]) : Set(drop(St, t, g))
UnpinMarkDirty(t) == At(t, "unpin_mark_dirty") /\ Set(unpin_mark_dirty(St, t))
UnpinUnpin(t) == At(t, "unpin_unpin") /\ Set(unpin_unpin(St, t))
UnpinSetEvictable(t) == At(t, "unpin_set_evictable") /\ Set(unpin_set_evictable(St, t))

\* the steps inside fetch_page_read / fetch_page_write, flush_page and a guard's
\* release
Inside(t) ==
    \/ HandleCacheHit(t) \/ HandleCacheMiss(t)
    \/ EvictPage(t) \/ EvictPageId(t) \/ EvictIsDirty(t)
    \/ FlushFrame(t) \/ FlushWrite(t) \/ FlushClearDirty(t)
    \/ EvictRemove(t) \/ EvictClearDirty(t) \/ EvictSetPageId(t)
    \/ MissReadPage(t) \/ MissCopy(t)
    \/ InstallSetPageId(t) \/ InstallPin(t) \/ InstallInsert(t)
    \/ InstallReplacer(t) \/ FetchLock(t)
    \/ UnpinMarkDirty(t) \/ UnpinUnpin(t) \/ UnpinSetEvictable(t)

Next ==
    \E t \in Threads :
        \/ FetchPageInternal(t) \/ FlushPage(t) \/ GuardWrite(t) \/ Drop(t)
        \/ Inside(t)
        \/ NewPage(t) \/ NewPageAllocate(t) \/ NewPageReset(t)
        \/ DeletePage(t) \/ DeleteSetPageId(t) \/ DeleteClearDirty(t)
        \/ DeleteReplacer(t) \/ DeleteFreeList(t)

Spec == Init /\ [][Next]_vars

\* threads that only fetch pages, write through write guards, flush and release
\* guards: no new_page, no delete_page
FetchNext ==
    \E t \in Threads :
        \/ FetchPageInternal(t) \/ FlushPage(t) \/ GuardWrite(t) \/ Drop(t)
        \/ Inside(t)

FetchSpec == Init /\ [][FetchNext]_vars

\* threads that work on the one page the database file starts with, for as
\* many calls as they like: they fetch it for write, write to it, flush it
\* and let their guards go out of scope
Along(t) == pc[t] = "idle" /\ UNCHANGED calls

FirstPage == InitPages - 1

PageFetchWrite(t) ==
    /\ Along(t) /\ GuardsHeld(St) < MaxGuards
    /\ Set(fetch_page_internal(St, t, FirstPage, TRUE))
PageFlush(t) == Along(t) /\ Set(flush_page(St, t, FirstPage))
PageWrite(t) ==
    /\ Along(t)
    /\ \E g \in BagToSet(guards[t]), v \in Vals :
          /\ g.write
          /\ Set(guard_write(St, t, g, v))
PageDrop(t) ==
    /\ Along(t)
    /\ \E g \in BagToSet(guards[t]) : Set(drop(St, t, g))

OnePageNext ==
    \E t \in Threads :
        \/ PageFetchWrite(t) \/ PageFlush(t) \/ PageWrite(t) \/ PageDrop(t)
        \/ Inside(t)

OnePageSpec == Init /\ [][OnePageNext]_vars

\* ---------------------------------------------------------------- SeqSpec: one thread, whole calls
Main == CHOOSE t \in Threads : TRUE

\* a call of the single thread, given by the state after its first step, run to
\* its return (a call that waits for ever or panics does not return)
Result(s) == Run(s, Main)

Call(s) == \E r \in {Result(s)} : r.pc[Main] = "ret" /\ Set(r) /\ UNCHANGED calls

SeqFetch ==
    /\ GuardsHeld(St) < MaxGuards
    /\ \E p \in PageIds, w \in BOOLEAN : Call(fetch_page_internal(St, Main, p, w))
SeqNewPage == GuardsHeld(St) < MaxGuards /\ CanAllocate(St) /\ Call(new_page(St, Main))
SeqDeletePage == \E p \in PageIds : Call(delete_page(St, Main, p))
SeqFlushPage == \E p \in PageIds : Call(flush_page(St, Main, p))
SeqGuardWrite ==
    \E g \in BagToSet(guards[Main]), v \in Vals :
        g.write /\ Call(guard_write(St, Main, g, v))
SeqFlushAllPages ==
    \E order \in Orders({p \in PageIds : page_table[p] # None}) :
        Call(flush_all_pages(St, Main, order))
SeqDrop == \E g \in BagToSet(guards[Main]) : Call(drop(St, Main, g))

SeqNext ==
    \/ SeqFetch \/ SeqNewPage \/ SeqDeletePage
    \/ SeqFlushPage \/ SeqFlushAllPages \/ SeqGuardWrite \/ SeqDrop

SeqSpec == Init /\ [][SeqNext]_vars

\* one thread that also releases guards early by drop_guard, before they go
\* out of scope (no delete_page, no flush_all_pages)
SeqDropGuard == \E g \in BagToSet(guards[Main]) : Call(drop_guard(St, Main, g))

GuardNext ==
    \/ SeqFetch \/ SeqNewPage \/ SeqFlushPage
    \/ SeqGuardWrite \/ SeqDropGuard \/ SeqDrop

GuardSpec == Init /\ [][GuardNext]_vars

\* one thread that only fetches, creates, writes and releases: no delete_page,
\* no flush_page, so a dirty page reaches the disk by eviction alone
EvictNext == SeqFetch \/ SeqNewPage \/ SeqGuardWrite \/ SeqDrop

EvictSpec == Init /\ [][EvictNext]_vars

\* ---------------------------------------------------------------- ReplacerSpec: a FifoReplacer on its own
Others ==
    <<page_table, free_list, frames, disk, pt_readers, pc, local, guards, calls,
      last_written, deleted>>

RecordAccess ==
    \E f \in FrameIds :
        /\ replacer' = record_access(replacer, f)
        /\ first_access' = FirstAccessed(first_access, f)
        /\ UNCHANGED Others

SetEvictable ==
    \E f \in FrameIds, e \in BOOLEAN :
        /\ replacer' = set_evictable(replacer, f, e)
        /\ UNCHANGED <<first_access, Others>>

Evict ==
    /\ replacer' = evict(replacer)
    /\ first_access' = IF evict_victim(replacer) = None THEN first_access
                       ELSE Untracked(first_access, evict_victim(replacer))
    /\ UNCHANGED Others

Remove ==
    \E f \in FrameIds :
        /\ replacer' = remove(replacer, f)
        /\ first_access' = Untracked(first_access, f)
        /\ UNCHANGED Others

ReplacerNext == RecordAccess \/ SetEvictable \/ Evict \/ Remove

ReplacerSpec == Init /\ [][ReplacerNext]_vars

\* ---------------------------------------------------------------- properties
\* no call of the pool and no guard release is partway through
Quiescent == \A t \in Threads : pc[t] = "idle"

\* the frame holds a page and the page table maps that page to it
Loaded(f) == frames[f].page_id # None /\ page_table[frames[f].page_id] = f

OnFreeList(f) == \E i \in 1..Len(free_list) : free_list[i] = f

\* the guards outstanding (not yet released), each with its holder and its
\* copy number
Outstanding ==
    UNION {UNION {{<<t, g, i>> : i \in 1..CopiesIn(g, guards[t])} :
                    g \in {h \in BagToSet(guards[t]) : ~h.dropped}} : t \in Threads}

\* a call made in the present state and run on its own to its return
FetchResult(p, w) == Run(fetch_page_internal(St, Main, p, w), Main)
NewPageResult == Run(new_page(St, Main), Main)

Returned(r, status) == r.pc[Main] = "ret" /\ r.local[Main].status = status

\* the pool in state record r is as it is now
SamePool(r) ==
    /\ r.page_table = page_table
    /\ r.free_list = free_list
    /\ r.replacer = replacer
    /\ \A f \in Frames :
          /\ r.frames[f].page_id = frames[f].page_id
          /\ r.frames[f].pin_count = frames[f].pin_count
          /\ r.frames[f].is_dirty = frames[f].is_dirty

\* C1: a pinned page is never evicted: while a guard obtained for page p is
\* outstanding, the guard's frame keeps page_id = Some(p), whatever the other
\* threads do.
C1_PinnedPageNotEvicted ==
    \A x \in Outstanding : frames[x[2].frame_id].page_id = x[2].page_id

\* C2: in every quiescent state no frame with pin_count > 0 is flagged
\* evictable in the replacer.
C2_PinnedNotEvictable ==
    Quiescent => \A f \in Frames : is_pinned(frames[f]) => f \notin replacer.evictable

\* C3: at no time do two write guards, or a write guard and a read guard, for
\* the same PageId exist together.
C3_WriteGuardExclusive ==
    \A x, y \in Outstanding :
        (x # y /\ x[2].page_id = y[2].page_id) => (~x[2].write /\ ~y[2].write)

\* C4: in every quiescent state page_table[p] = f implies frame f has
\* page_id = Some(p), and every frame with page_id = Some(p) has
\* page_table[p] = f (I1).
C4_PageTableConsistent ==
    Quiescent =>
        /\ \A p \in PageIds :
              page_table[p] # None => frames[page_table[p]].page_id = p
        /\ \A f \in Frames :
              frames[f].page_id # None => page_table[frames[f].page_id] = f

\* C5: after any sequence of calls, failed ones included, every frame is either
\* loaded or on the free list, never neither and never both, so the loaded
\* frames and the free list add up to pool_size (I2).
C5_FrameConservation ==
    /\ \A f \in Frames : Loaded(f) # OnFreeList(f)
    /\ Cardinality({f \in Frames : Loaded(f)}) + Len(free_list) = pool_size

\* C6: a fetch of a page id that does not exist on disk returns PageNotFound
\* and leaves the free list, the page table, every pin count and the replacer
\* as they were before the call.
C6_FailedFetchRestores ==
    [][\A p \in PageIds, w \in BOOLEAN :
          (p >= disk.page_count /\ St' = Forget(FetchResult(p, w)))
              => /\ Returned(FetchResult(p, w), "PageNotFound")
                 /\ free_list' = free_list
                 /\ page_table' = page_table
                 /\ replacer' = replacer
                 /\ \A f \in Frames : frames'[f].pin_count = frames[f].pin_count]_vars

\* every frame is loaded and has pin_count > 0
AllPinned == \A f \in Frames : Loaded(f) /\ is_pinned(frames[f])

\* the call returned NoFreeFrames and changed nothing in the pool
Refused(r) == Returned(r, "NoFreeFrames") /\ SamePool(r)

\* C7: when every frame is loaded and pinned, new_page and a fetch of a
\* non-resident page return NoFreeFrames and change nothing in the pool.
C7_AllPinnedRefuses ==
    (Quiescent /\ AllPinned) =>
        /\ Refused(NewPageResult)
        /\ \A p \in PageIds, w \in BOOLEAN :
              page_table[p] = None => Refused(FetchResult(p, w))

\* C8: NoFreeFrames is returned only when every frame is pinned: whenever some
\* frame has pin_count 0, neither new_page nor a fetch of a page that exists on
\* disk returns NoFreeFrames.
C8_NoFreeFramesOnlyWhenAllPinned ==
    (\E f \in Frames : ~is_pinned(frames[f])) =>
        /\ CanAllocate(St) => ~Returned(NewPageResult, "NoFreeFrames")
        /\ \A p \in 0..(disk.page_count - 1), w \in BOOLEAN :
              ~Returned(FetchResult(p, w), "NoFreeFrames")

\* C9: in a single-threaded run without delete_page, a page that leaves the
\* pool has its in-memory bytes on disk, they stay there while it is not
\* resident, and the fetch that brings it back returns exactly those bytes.
C9_EvictionPersists ==
    [][\A p \in 0..(disk.page_count - 1) :
          /\ (page_table[p] # None /\ page_table'[p] = None)
                => disk'.data[p] = frames[page_table[p]].data
          /\ (page_table[p] = None /\ page_table'[p] = None)
                => disk'.data[p] = disk.data[p]
          /\ (page_table[p] = None /\ page_table'[p] # None)
                => frames'[page_table'[p]].data = disk.data[p]]_vars

\* a read guard on a page whose frame is clean and holds the non-zero bytes the
\* last write guard left: they went to disk by an eviction and came back by
\* this fetch
C9_EvictedAndFetchedBack ==
    \E g \in BagToSet(guards[Main]) :
        /\ ~g.write
        /\ ~frames[g.frame_id].is_dirty
        /\ last_written[g.page_id] # None /\ last_written[g.page_id] # 0
        /\ frames[g.frame_id].data = last_written[g.page_id]

\* C10: once all guards on page p have been released (p never deleted), a
\* fetch_read(p) returns the bytes left by the last write guard released on p.
C10_NoLostWrite ==
    \A p \in PageIds :
        (/\ Quiescent
         /\ last_written[p] # None
         /\ p \notin deleted
         /\ \A x \in Outstanding : x[2].page_id # p
         /\ Returned(FetchResult(p, FALSE), "Ok"))
            => LET r == FetchResult(p, FALSE)
               IN r.frames[r.local[Main].frame_id].data = last_written[p]

\* the pool, the disk and the page locks in state record r are as they are now
SameState(r) ==
    /\ r.page_table = page_table
    /\ r.free_list = free_list
    /\ r.replacer = replacer
    /\ r.frames = frames
    /\ r.disk = disk

\* C11: the first release of a guard, by drop_guard or by going out of scope,
\* lowers the frame's pin count by exactly 1; a read guard leaves the dirty
\* flag as it was, a write guard leaves it true whether or not a byte of the
\* page was written.
C11_FirstReleaseEffect ==
    [][\A g \in BagToSet(guards[Main]) :
          (/\ ~g.dropped
           /\ \/ St' = Forget(Run(drop_guard(St, Main, g), Main))
              \/ St' = Forget(Run(drop(St, Main, g), Main)))
              => /\ frames[g.frame_id].pin_count > 0
                 /\ frames'[g.frame_id].pin_count = frames[g.frame_id].pin_count - 1
                 /\ frames'[g.frame_id].is_dirty
                       = (g.write \/ frames[g.frame_id].is_dirty)]_vars

\* a write guard released by drop_guard without a byte written through it (the
\* page still holds its bytes on disk, which were clean when it was taken):
\* the frame is dirty and has no pin left
C11_WriteGuardReleased ==
    \E g \in BagToSet(guards[Main]) :
        /\ g.dropped /\ g.write
        /\ frames[g.frame_id].page_id = g.page_id
        /\ frames[g.frame_id].is_dirty
        /\ frames[g.frame_id].pin_count = 0
        /\ last_written[g.page_id] = disk.data[g.page_id]

\* C12: drop_guard on a guard that was already released, any number of times,
\* and the guard's going out of scope afterwards change neither pin count,
\* dirty flag, page lock nor replacer; the page can then be fetched for write
\* without blocking.
C12_DropGuardIdempotent ==
    \A g \in BagToSet(guards[Main]) :
        g.dropped =>
            /\ LET r == Run(drop_guard(St, Main, g), Main)
               IN Returned(r, "Ok") /\ SameState(r) /\ r.guards = guards
            /\ LET r == Run(drop(St, Main, g), Main)
               IN /\ Returned(r, "Ok") /\ SameState(r)
                  /\ r.guards[Main] = guards[Main] (-) SetToBag({g})
            /\ (\A x \in Outstanding : x[2].page_id # g.page_id)
                  => FetchResult(g.page_id, TRUE).pc[Main] = "ret"

\* a read guard and a write guard, both released by drop_guard and still in
\* scope
C12_ReleasedGuardsInScope ==
    \E g, h \in BagToSet(guards[Main]) :
        g.dropped /\ h.dropped /\ g.write /\ ~h.write

\* C13: when flush_page(p) returns Ok and p is resident, p's dirty flag is
\* false and the bytes on disk for p are p's bytes in memory.  Stated for a
\* flush_page called in a quiescent pool with no guard on p outstanding and
\* run to its return.
C13_FlushPostcondition ==
    \A p \in PageIds :
        LET r == Run(flush_page(St, Main, p), Main)
            f == r.page_table[p]
        IN (/\ Quiescent
            /\ \A x \in Outstanding : x[2].page_id # p
            /\ Returned(r, "Ok")
            /\ f # None)
               => /\ ~r.frames[f].is_dirty
                  /\ r.disk.data[p] = r.frames[f].data

\* page table, free list, replacer flags and every frame's pin count and
\* identity in state record r are as they are now
SamePins(r) ==
    /\ r.page_table = page_table
    /\ r.free_list = free_list
    /\ r.replacer = replacer
    /\ \A f \in Frames :
          /\ r.frames[f].page_id = frames[f].page_id
          /\ r.frames[f].pin_count = frames[f].pin_count

Resident == {p \in PageIds : page_table[p] # None}

\* C14: flush_page and flush_all_pages change neither page table, free list,
\* pin counts, frame identities nor replacer flags; flush_page of a page that
\* is not resident returns Ok without a disk write, and a resident clean page
\* is not written and not counted in pages_written.
C14_FlushLeavesPoolAlone ==
    /\ \A p \in PageIds :
          LET r == Run(flush_page(St, Main, p), Main)
          IN /\ SamePins(r)
             /\ (page_table[p] = None \/ ~frames[page_table[p]].is_dirty)
                   => /\ Returned(r, "Ok")
                      /\ r.disk = disk
                      /\ r.local[Main].io.writes = 0
                      /\ r.local[Main].stats.pages_written = 0
    /\ \A order \in Orders(Resident) :
          LET r == Run(flush_all_pages(St, Main, order), Main)
          IN /\ SamePins(r)
             /\ r.local[Main].stats.pages_written <= r.local[Main].io.writes
             /\ r.local[Main].io.writes
                   <= Cardinality({p \in Resident : frames[page_table[p]].is_dirty})

\* a page that was written and flushed is resident, clean and pinned, next to
\* a page id that is not resident
C14_FlushedPagePinned ==
    \E p \in Resident :
        /\ is_pinned(frames[page_table[p]])
        /\ ~frames[page_table[p]].is_dirty
        /\ last_written[p] # None /\ last_written[p] # 0
        /\ disk.data[p] = frames[page_table[p]].data
        /\ deleted = {}
        /\ Len(free_list) + Cardinality(Resident) = pool_size

\* C15: delete_page of a page that is not resident returns Ok and changes
\* nothing; delete_page of a resident page with pin_count > 0 returns
\* PageNotPinned and changes nothing.
C15_DeleteRefused ==
    \A p \in PageIds :
        LET r == Run(delete_page(St, Main, p), Main)
        IN /\ page_table[p] = None => Returned(r, "Ok") /\ SameState(r)
           /\ (page_table[p] # None /\ is_pinned(frames[page_table[p]]))
                 => Returned(r, "PageNotPinned") /\ SameState(r)

\* a resident page that is pinned and dirty, in a pool a page was deleted from
C15_PinnedDirtyPage ==
    \E p \in Resident :
        /\ is_pinned(frames[page_table[p]])
        /\ frames[page_table[p]].is_dirty
        /\ deleted # {}

\* C16: delete_page of a resident page with pin count 0 returns Ok; afterwards
\* the page is not in the page table, its frame has page_id = None and is
\* clean, is not tracked by the replacer and is on the free list: one page
\* fewer in the pool, one free frame more.
C16_DeleteFreesFrame ==
    [][\A p \in Resident :
          LET f == page_table[p]
              r == Run(delete_page(St, Main, p), Main)
          IN (~is_pinned(frames[f]) /\ St' = Forget(r))
                => /\ Returned(r, "Ok")
                   /\ page_table'[p] = None
                   /\ frames'[f].page_id = None
                   /\ ~frames'[f].is_dirty
                   /\ f \notin replacer'.in_queue
                   /\ f \notin replacer'.evictable
                   /\ \A i \in DOMAIN replacer'.queue : replacer'.queue[i] # f
                   /\ \E i \in DOMAIN free_list' : free_list'[i] = f
                   /\ Len(free_list') = Len(free_list) + 1
                   /\ {q \in PageIds : page_table'[q] # None} = Resident \ {p}]_vars

\* a page that was written has been deleted and the whole pool is free again
C16_DeletedAllFree ==
    \E p \in deleted :
        /\ page_table[p] = None
        /\ last_written[p] # None
        /\ Len(free_list) = pool_size
        /\ replacer.in_queue = {}

\* C17: delete_page writes nothing to disk and does not count a page written;
\* a fetch of the page after the delete returns the bytes the disk held
\* before it.
C17_DeleteDiscards ==
    \A p \in PageIds :
        LET r == Run(delete_page(St, Main, p), Main)
        IN /\ r.disk = disk
           /\ r.local[Main].io.writes = 0
           /\ r.local[Main].stats.pages_written = 0
           /\ (Returned(r, "Ok") /\ p < disk.page_count)
                 => LET r2 == Run(fetch_page_internal(Forget(r), Main, p, FALSE), Main)
                    IN Returned(r2, "Ok")
                          => r2.frames[r2.local[Main].frame_id].data = disk.data[p]

\* a page deleted while dirty and fetched again: its frame is clean and holds
\* the disk's bytes, not the bytes the last write guard left
C17_DiscardedWrite ==
    \E p \in deleted :
        /\ page_table[p] # None
        /\ ~frames[page_table[p]].is_dirty
        /\ frames[page_table[p]].data = disk.data[p]
        /\ last_written[p] # None
        /\ last_written[p] # disk.data[p]

\* C18: a fetch of a resident page adds 1 to cache_hits and nothing to the
\* other counters, reads and writes nothing on disk, and returns the page's
\* bytes in memory.
C18_CacheHitCounts ==
    \A p \in Resident, w \in BOOLEAN :
        LET r == FetchResult(p, w)
            f == page_table[p]
        IN /\ r.local[Main].stats = [NewStats EXCEPT !.cache_hits = 1]
           /\ r.local[Main].io = [reads |-> 0, writes |-> 0]
           /\ r.disk = disk
           /\ Returned(r, "Ok")
                 => /\ r.local[Main].frame_id = f
                    /\ r.frames[f].data = frames[f].data

\* the same resident page fetched twice for read, both guards outstanding,
\* its bytes in memory not those on disk
C18_FetchedTwice ==
    \E g \in BagToSet(guards[Main]) :
        /\ ~g.write
        /\ CopiesIn(g, guards[Main]) >= 2
        /\ page_table[g.page_id] = g.frame_id
        /\ frames[g.frame_id].data # disk.data[g.page_id]

\* the tracked frames that are flagged evictable
Candidates == {f \in replacer.in_queue : f \in replacer.evictable}

\* C19: evict() returns, among the tracked frames flagged evictable, the one
\* whose first record_access since it was last evicted or removed came
\* earliest (None when there is none); accessing a tracked frame again does
\* not change that.
C19_FifoOrder ==
    /\ Tracked(first_access) = replacer.in_queue
    /\ IF Candidates = {} THEN evict_victim(replacer) = None
       ELSE /\ evict_victim(replacer) \in Candidates
            /\ \A g \in Candidates : <<evict_victim(replacer), g>> \in first_access

\* three tracked frames, the oldest not evictable, the two after it evictable
\* and not in the order of their ids
C19_OldestPinned ==
    /\ Len(replacer.queue) >= 3
    /\ replacer.queue[1] \notin replacer.evictable
    /\ replacer.queue[2] \in replacer.evictable
    /\ replacer.queue[3] \in replacer.evictable
    /\ replacer.queue[2] > replacer.queue[3]

\* C20: evict() takes out of the replacer only the frame it returns: the
\* other tracked frames stay tracked, in first-access order, with their
\* flags; an evict() that returns None changes nothing.
C20_EvictNonDestructive ==
    LET v == evict_victim(replacer)
        r == evict(replacer)
    IN /\ v = None => r = replacer
       /\ v # None
             => /\ r.in_queue = replacer.in_queue \ {v}
                /\ r.evictable = replacer.evictable \ {v}
                /\ r.queue = SelectSeq(replacer.queue, LAMBDA x : x # v)
       /\ {r.queue[i] : i \in DOMAIN r.queue} = r.in_queue
       /\ \A i, j \in DOMAIN r.queue :
             i < j => <<r.queue[i], r.queue[j]>> \in first_access

\* evict() has to search past two tracked frames that are not evictable, and
\* a frame is no longer tracked
C20_SearchesPast ==
    /\ position(replacer) > 2
    /\ Cardinality(replacer.in_queue) < FifoFrames

\* C21: evict() returns None exactly when no frame is flagged evictable, that
\* is when size() = 0; when size() > 0 it returns a frame that was flagged
\* evictable and size() goes down by exactly 1.
C21_EvictNoneIffSizeZero ==
    /\ (evict_victim(replacer) = None) <=> (size(replacer) = 0)
    /\ size(replacer) > 0
          => /\ evict_victim(replacer) \in replacer.evictable
             /\ size(evict(replacer)) = size(replacer) - 1

\* get_pin_count(page_id): the pin count of the page's frame if the page is
\* resident, None otherwise
get_pin_count(s, p) ==
    IF s.page_table[p] = None THEN None ELSE s.frames[s.page_table[p]].pin_count

\* the guards on page p that were obtained and not yet released
GuardsOn(p) == {x \in Outstanding : x[2].page_id = p}

\* C22: in every quiescent state get_pin_count(p) of a resident page is the
\* number of guards on p obtained and not yet released, and None for a page
\* that is not resident; a fetch or new_page that succeeds raises the page's
\* count by exactly 1, one that fails leaves every pin count as it was.
C22_PinCountIsGuards ==
    Quiescent =>
        /\ \A p \in PageIds :
              get_pin_count(St, p)
                 = IF page_table[p] = None THEN None ELSE Cardinality(GuardsOn(p))
        /\ \A p \in PageIds, w \in BOOLEAN :
              LET r == FetchResult(p, w)
              IN /\ Returned(r, "Ok")
                       => get_pin_count(r, p) = Cardinality(GuardsOn(p)) + 1
                 /\ (r.pc[Main] = "ret" /\ ~Returned(r, "Ok"))
                       => \A f \in Frames : r.frames[f].pin_count = frames[f].pin_count
        /\ LET r == NewPageResult
           IN /\ Returned(r, "Ok") => get_pin_count(r, r.local[Main].page_id) = 1
              /\ (r.pc[Main] = "ret" /\ ~Returned(r, "Ok"))
                    => \A f \in Frames : r.frames[f].pin_count = frames[f].pin_count

\* ---------------------------------------------------------------- LiveSpec: fair threads
\* calls the threads of LiveSpec make in all, guard releases not counted
LiveCalls == 3

LiveIdle(t) == pc[t] = "idle" /\ calls < LiveCalls /\ calls' = calls + 1

\* a thread's next call: a fetch for write, a new_page, a flush or a delete
\* of a page id the file can hold, or the release of a guard it holds
LiveFetch(t) ==
    /\ LiveIdle(t) /\ GuardsHeld(St) < MaxGuards
    /\ \E p \in 0..(MaxPages - 1) : Set(fetch_page_internal(St, t, p, TRUE))
LiveNewPage(t) ==
    /\ LiveIdle(t) /\ GuardsHeld(St) < MaxGuards /\ CanAllocate(St)
    /\ Set(new_page(St, t))
LiveFlush(t) == LiveIdle(t) /\ \E p \in 0..(MaxPages - 1) : Set(flush_page(St, t, p))
LiveDelete(t) ==
    /\ LiveIdle(t) /\ pt_readers = {}
    /\ \E p \in 0..(MaxPages - 1) : Set(delete_page(St, t, p))
LiveDrop(t) == Along(t) /\ \E g \in BagToSet(guards[t]) : Set(drop(St, t, g))

\* the steps inside any call
InCall(t) ==
    \/ Inside(t)
    \/ NewPageAllocate(t) \/ NewPageReset(t)
    \/ DeleteSetPageId(t) \/ DeleteClearDirty(t) \/ DeleteReplacer(t) \/ DeleteFreeList(t)

LiveNext ==
    \E t \in Threads :
        \/ LiveFetch(t) \/ LiveNewPage(t) \/ LiveFlush(t) \/ LiveDelete(t)
        \/ LiveDrop(t)
        \/ InCall(t)

\* the scheduler and the locks of parking_lot are fair: a thread whose next
\* step can be taken again and again takes it
LiveSpec ==
    Init /\ [][LiveNext]_vars /\ \A t \in Threads : SF_vars(InCall(t))

\* the thread is inside a call and its next step waits for a lock
Blocked(t) == pc[t] \notin {"idle", "ret", "panicked"} /\ ~CanStep(St, t)

\* the holders of the page lock of frame f are exactly the guards on f that
\* are outstanding: no released guard and no operation holds it
GuardLocks(f) ==
    /\ frames[f].readers
          = Cardinality({x \in Outstanding : x[2].frame_id = f /\ ~x[2].write})
    /\ frames[f].writer = (\E x \in Outstanding : x[2].frame_id = f /\ x[2].write)

\* the page lock of frame f is held by guards that are outstanding, and by
\* nothing else
HeldByGuards(f) == (\E x \in Outstanding : x[2].frame_id = f) /\ GuardLocks(f)

\* the thread waits for page_table.write() while threads that can all go on
\* hold page_table.read()
WaitsForCoreLock(t) ==
    /\ pc[t] \in {"evict_remove", "install_insert"}
    /\ pt_readers # {}
    /\ \A u \in pt_readers : u # t /\ CanStep(St, u)

\* the thread waits for the page lock of its frame, which guards hold
WaitsForGuard(t) ==
    /\ pc[t] \in {"flush_write", "miss_copy", "new_page_reset", "fetch_lock"}
    /\ HeldByGuards(local[t].frame_id)

LockRank(l) ==
    CASE l = "page_table" -> 1
      [] l = "free_list" -> 2
      [] l = "replacer" -> 3
      [] l = "disk" -> 4
      [] l = "page" -> 5

CoreLocks == {"page_table", "free_list", "replacer", "disk"}

Acq(l) == <<"acquire", l>>
Rel(l) == <<"release", l>>

\* the locks the step a thread is at acquires and releases, in the order the
\* code does
StepLocks(s, t) ==
    LET at == s.pc[t]
    IN CASE at = "handle_cache_hit" ->
                <<Acq("replacer"), Rel("replacer"), Rel("page_table")>>
         [] at = "handle_cache_miss" -> <<Acq("free_list"), Rel("free_list")>>
         [] at \in {"evict_page", "install_replacer", "delete_replacer",
                    "unpin_set_evictable"} ->
                <<Acq("replacer"), Rel("replacer")>>
         [] at = "flush_write" ->
                <<Acq("page"), Acq("disk"), Rel("disk"), Rel("page")>>
         [] at = "evict_remove" ->
                IF L(s, t).old_page_id # None
                THEN <<Acq("page_table"), Rel("page_table")>>
                ELSE <<>>
         [] at \in {"miss_read_page", "new_page_allocate"} ->
                <<Acq("disk"), Rel("disk")>>
         [] at \in {"miss_copy", "new_page_reset"} -> <<Acq("page"), Rel("page")>>
         [] at = "install_insert" -> <<Acq("page_table"), Rel("page_table")>>
         [] at = "fetch_lock" -> <<Acq("page")>>
         [] at = "delete_free_list" -> <<Acq("free_list"), Rel("free_list")>>
         [] OTHER -> <<>>

\* the locks a thread's operation holds between two of its steps: only
\* page_table.read() is held from one step to the next
HeldLocks(s, t) == IF t \in s.pt_readers THEN {"page_table"} ELSE {}

\* the locks held when the i-th event of a sequence of lock events happens
HeldAt(held, events, i) ==
    LET RECURSIVE After(_)
        After(k) ==
            IF k = 0 THEN held
            ELSE IF events[k][1] = "acquire" THEN After(k - 1) \cup {events[k][2]}
                 ELSE After(k - 1) \ {events[k][2]}
    IN After(i - 1)

\* the acquisitions the next step of thread t makes, each with the locks the
\* operation holds at that point
Acquisitions(t) ==
    LET events == StepLocks(St, t)
    IN {<<events[i][2], HeldAt(HeldLocks(St, t), events, i)>> :
           i \in {k \in DOMAIN events : events[k][1] = "acquire"}}

\* C24: no operation acquires a lock while it holds one that comes later in
\* the order page-table lock, free-list lock, replacer lock, disk lock,
\* per-frame page lock.
C24_LockOrder ==
    \A t \in Threads :
        pc[t] \notin {"idle", "ret", "panicked"} =>
            \A a \in Acquisitions(t) : \A h \in a[2] : LockRank(h) <= LockRank(a[1])

\* C28: whenever an operation requests a per-frame page lock (for the guard
\* it returns, to install data on a miss, to zero the page in new_page, to
\* flush), its thread holds none of the page-table, free-list, replacer and
\* disk locks.
C28_NoCoreLockAcrossPageLock ==
    \A t \in Threads :
        pc[t] \notin {"idle", "ret", "panicked"} =>
            \A a \in Acquisitions(t) : a[1] = "page" => a[2] \cap CoreLocks = {}

\* one thread is about to take the page lock for the guard of a fetch that
\* hit while the other holds page_table.read() on the same page
C28_LockAfterLookup ==
    \E t, u \in Threads :
        /\ t # u
        /\ pc[t] = "fetch_lock" /\ local[t].op \in {"fetch_read", "fetch_write"}
        /\ local[t].stats.cache_hits = 1
        /\ pc[u] = "handle_cache_hit" /\ local[u].page_id = local[t].page_id

\* ---------------------------------------------------------------- FailSpec: one thread, a disk that can fail
\* the file system starts to fail, or works again
Pool ==
    <<page_table, free_list, replacer, frames, pt_readers, pc, local, guards, calls,
      last_written, deleted, first_access>>

DiskFails == disk.ok /\ disk' = [disk EXCEPT !.ok = FALSE] /\ UNCHANGED Pool
DiskWorks == ~disk.ok /\ disk' = [disk EXCEPT !.ok = TRUE] /\ UNCHANGED Pool

FailNext == SeqFetch \/ SeqNewPage \/ SeqGuardWrite \/ SeqDrop \/ DiskFails \/ DiskWorks

FailSpec == Init /\ [][FailNext]_vars

\* the state once the file system works again
Repaired(s) == [s EXCEPT !.disk.ok = TRUE]

\* the call failed on the disk write of its dirty victim, the frame v, and
\* left v as it was: its page in the page table, identity, bytes and dirty
\* flag intact, the frame still a candidate of the replacer
VictimKept(r, v) ==
    /\ Returned(r, "Io")
    /\ r.page_table = page_table
    /\ r.frames[v] = frames[v]
    /\ v \in r.replacer.in_queue /\ v \in r.replacer.evictable

\* C25: when the disk write of a dirty victim fails during eviction, the
\* fetch or new_page returns the disk error, the victim page stays in the
\* page table with identity, bytes and dirty flag intact and stays eligible
\* for eviction, and the same call made once the disk works again succeeds.
C25_FailedEvictionKeepsVictim ==
    LET v == evict_victim(replacer)
    IN (/\ ~disk.ok /\ free_list = <<>> /\ v # None
        /\ frames[v].is_dirty /\ frames[v].page_id # None)
          => /\ \A p \in 0..(disk.page_count - 1), w \in BOOLEAN :
                   (page_table[p] = None /\ GuardsHeld(St) < MaxGuards)
                      => LET r == FetchResult(p, w)
                         IN /\ VictimKept(r, v)
                            /\ Returned(Run(fetch_page_internal(Repaired(Forget(r)),
                                                                Main, p, w), Main), "Ok")
             /\ (CanAllocate(St) /\ GuardsHeld(St) < MaxGuards)
                   => LET r == NewPageResult
                      IN /\ VictimKept(r, v)
                         /\ Returned(Run(new_page(Repaired(Forget(r)), Main), Main), "Ok")

\* the thread has obtained a frame from get_free_frame and is installing a
\* page in it (a miss or new_page that has not returned yet)
Installing(t) ==
    /\ local[t].op \in {"fetch_read", "fetch_write", "new_page"}
    /\ local[t].frame_id # None
    /\ local[t].stats.cache_hits = 0
    /\ pc[t] \notin {"idle", "ret", "panicked", "handle_cache_hit"}

\* C26: whatever the interleaving of delete_page, misses and new_page, no
\* frame is on the free list and a value of the page table at once, no frame
\* is on the free list twice, and no frame is the target of two installing
\* operations at once.
C26_FrameHandedOutOnce ==
    /\ \A f \in Frames : ~(OnFreeList(f) /\ \E p \in PageIds : page_table[p] = f)
    /\ \A i, j \in DOMAIN free_list : i # j => free_list[i] # free_list[j]
    /\ \A t, u \in Threads :
          (t # u /\ Installing(t) /\ Installing(u))
              => local[t].frame_id # local[u].frame_id

\* the thread is in unpin_page_internal, called by the release of a guard
Unpinning(t) ==
    /\ local[t].op = "drop_guard"
    /\ pc[t] \in {"unpin_mark_dirty", "unpin_unpin", "unpin_set_evictable"}

\* C27: a guard's release gives up the page lock before it lowers the pin
\* count and before it tells the replacer that the frame is evictable: while
\* a release is in unpin_page_internal, the guard being released no longer
\* holds the page lock.
C27_LockReleasedBeforeUnpin ==
    \A t \in Threads : Unpinning(t) => GuardLocks(local[t].frame_id)

\* a released write guard has not lowered the pin count yet and the other
\* thread already holds a write guard on the same frame
C27_NextWriterBeforeUnpin ==
    \E t, u \in Threads : \E g \in BagToSet(guards[u]) :
        /\ t # u
        /\ Unpinning(t) /\ local[t].write /\ pc[t] # "unpin_set_evictable"
        /\ frames[local[t].frame_id].pin_count = 2
        /\ g.write /\ ~g.dropped /\ g.frame_id = local[t].frame_id

C30_FailedNewPageLeaksId ==
    LET r == NewPageResult
    IN (Quiescent /\ CanAllocate(St) /\ GuardsHeld(St) < MaxGuards
          /\ Returned(r, "NoFreeFrames"))
          => /\ r.disk.page_count = disk.page_count + 1
             /\ allocate_page(r.disk).page_count = disk.page_count + 2

\* pages that are in the page table now and are not in that of state record r
Displaced(r) == {q \in PageIds : page_table[q] # None /\ r.page_table[q] = None}

\* what a call that ran to state record r has added to stats.evictions
Evictions(r) == r.local[Main].stats.evictions

\* C31: the evictions counter counts the resident pages that victim selection
\* displaces: a fetch or new_page adds to it the number of pages it removed
\* from the page table, which is 0 on a cache hit, when the free list has a
\* frame, and when the call fails; delete_page adds nothing; with pool_size 1
\* and no guard outstanding, a new_page on a loaded pool makes exactly one
\* eviction and at most one write to disk.
C31_EvictionsCountDisplaced ==
    Quiescent =>
        /\ \A p \in PageIds, w \in BOOLEAN :
              LET r == FetchResult(p, w)
              IN (GuardsHeld(St) < MaxGuards /\ r.pc[Main] = "ret")
                    => /\ Evictions(r) = Cardinality(Displaced(r))
                       /\ (page_table[p] # None \/ Len(free_list) > 0 \/ ~Returned(r, "Ok"))
                             => Evictions(r) = 0
        /\ LET r == NewPageResult
           IN (GuardsHeld(St) < MaxGuards /\ CanAllocate(St) /\ r.pc[Main] = "ret")
                 => /\ Evictions(r) = Cardinality(Displaced(r))
                    /\ (Len(free_list) > 0 \/ ~Returned(r, "Ok")) => Evictions(r) = 0
                    /\ (pool_size = 1 /\ Outstanding = {} /\ \A f \in Frames : Loaded(f))
                          => (Evictions(r) = 1 /\ r.local[Main].io.writes <= 1)
        /\ \A p \in PageIds :
              LET r == Run(delete_page(St, Main, p), Main)
              IN r.pc[Main] = "ret" => Evictions(r) = 0

\* C32: in every quiescent state a frame whose dirty flag is set holds a page
\* (page_id = Some(_)): no empty frame is left dirty, after delete_page, after
\* an eviction or after the release of a write guard.
C32_DirtyHasIdentity ==
    Quiescent => \A f \in Frames : frames[f].is_dirty => frames[f].page_id # None

\* C33: in every quiescent state every frame the replacer flags evictable is
\* loaded (it has a page id and the page table maps that page to it) and is
\* in the replacer's queue; no frame on the free list is flagged evictable.
C33_EvictableIsLoaded ==
    Quiescent =>
        \A f \in replacer.evictable :
            /\ Loaded(f)
            /\ f \in replacer.in_queue
            /\ ~OnFreeList(f)

\* C34: dereferencing a read or write guard, immutably or mutably, after
\* drop_guard has run on it panics and gives no access to the page's bytes;
\* before drop_guard it succeeds, on the page of the guard's frame, and a
\* store through a write guard lands in it.
C34_DerefAfterDropGuardPanics ==
    \A g \in BagToSet(guards[Main]) :
        LET r == Run(guard_read(St, Main, g), Main)
        IN /\ g.dropped
                => /\ r.pc[Main] = "panicked"
                   /\ g.write
                         => \A v \in Vals :
                                LET w == Run(guard_write(St, Main, g, v), Main)
                                IN w.pc[Main] = "panicked" /\ w.frames = frames
           /\ ~g.dropped
                => /\ Returned(r, "Ok")
                   /\ r.local[Main].frame_id = g.frame_id
                   /\ r.frames = frames
                   /\ g.write
                         => \A v \in Vals :
                                LET w == Run(guard_write(St, Main, g, v), Main)
                                IN Returned(w, "Ok") /\ w.frames[g.frame_id].data = v

\* a read guard released by drop_guard and still in scope, while a write guard
\* taken afterwards on the same page has stored non-zero bytes in it
C34_DeadGuardBesideWriter ==
    \E g, h \in BagToSet(guards[Main]) :
        /\ g.dropped /\ ~g.write
        /\ ~h.dropped /\ h.write
        /\ g.page_id = h.page_id /\ g.frame_id = h.frame_id
        /\ frames[h.frame_id].data # 0

\* C35: every write to disk that flush_page, flush_all_pages or an eviction
\* issues for page id p writes the bytes of page p: when the write is made,
\* the frame written from has page_id = Some(p).
C35_FlushWritesOwnPage ==
    \A t \in Threads :
        (pc[t] = "flush_write" /\ CanStep(St, t) /\ FlushPid(St, t) < disk.page_count)
            => frames[local[t].frame_id].page_id = FlushPid(St, t)

\* a write guard on page p is outstanding, or its release is under way
WriterOn(p) ==
    \/ \E x \in Outstanding : x[2].page_id = p /\ x[2].write
    \/ \E t \in Threads :
          /\ local[t].op = "drop_guard" /\ local[t].write /\ local[t].page_id = p
          /\ pc[t] \in {"unpin_mark_dirty", "unpin_unpin", "unpin_set_evictable"}

\* C36: clean implies in sync: in every reachable state a resident page whose
\* dirty flag is false, and on which no write guard is outstanding or being
\* released, has the same bytes in memory as on disk.  A resident page is one
\* the page table maps to a frame, that frame being the only one to hold it.
C36_CleanInSync ==
    \A p \in 0..(disk.page_count - 1) :
        (/\ page_table[p] # None
         /\ \A f \in Frames : frames[f].page_id = p <=> f = page_table[p]
         /\ ~frames[page_table[p]].is_dirty
         /\ ~WriterOn(p))
            => frames[page_table[p]].data = disk.data[p]

\* ---------------------------------------------------------------- ReleaseSpec: early releases among threads
\* a thread calls drop_guard on a guard it holds, released before or not
DropGuard(t) ==
    /\ Idle(t)
    /\ \E g \in BagToSet(guards[t]) : Set(drop_guard(St, t, g))

\* threads that fetch, create, delete and flush pages, release guards early
\* by drop_guard, any number of times, and let them go out of scope
ReleaseNext ==
    \E t \in Threads :
        \/ FetchPageInternal(t) \/ FlushPage(t) \/ DropGuard(t) \/ Drop(t)
        \/ Inside(t)
        \/ NewPage(t) \/ NewPageAllocate(t) \/ NewPageReset(t)
        \/ DeletePage(t) \/ DeleteSetPageId(t) \/ DeleteClearDirty(t)
        \/ DeleteReplacer(t) \/ DeleteFreeList(t)

ReleaseSpec == Init /\ [][ReleaseNext]_vars

\* C37: the pin-count underflow assertion cannot be reached through the pool:
\* whenever a guard's release comes to Frame::unpin, the frame's pin count is
\* above 0, and no thread panics.
C37_NoPinUnderflow ==
    \A t \in Threads :
        /\ pc[t] # "panicked"
        /\ pc[t] = "unpin_unpin" => frames[local[t].frame_id].pin_count > 0

\* a release is about to take a frame's last pin while the other thread still
\* has in scope a guard on that frame that drop_guard has already released
C37_LastPinBesideReleasedGuard ==
    \E t, u \in Threads : \E g \in BagToSet(guards[u]) :
        /\ t # u
        /\ pc[t] = "unpin_unpin"
        /\ g.dropped /\ g.frame_id = local[t].frame_id
        /\ frames[g.frame_id].pin_count = 1

\* ---------------------------------------------------------------- ResidencySpec: one thread, residency order kept
\* BufferPoolManager::new over a database file that already has MaxPages
\* pages; new_page can add one more
ResidencyInit ==
    /\ page_table = [p \in PageIds |-> None]
    /\ \E n \in 1..PoolSize :
          /\ free_list = [i \in 1..n |-> i - 1]
          /\ frames = [f \in 0..(n - 1) |-> NewFrame]
    /\ replacer = NewReplacer
    /\ disk = [page_count |-> MaxPages, data |-> [p \in PageIds |-> 0], ok |-> TRUE]
    /\ pt_readers = {}
    /\ pc = [t \in Threads |-> "idle"]
    /\ local = [t \in Threads |-> NoLocal]
    /\ guards = [t \in Threads |-> EmptyBag]
    /\ calls = 0
    /\ last_written = [p \in PageIds |-> None]
    /\ deleted = {}
    /\ first_access = {}

\* The residency order after a call that led to state record r: <<f, g>> is in
\* it when frames f and g hold resident pages and f's page has been resident
\* at least as long as g's.  A residency ends when the page table no longer
\* maps the page to the frame, and begins when it comes to map it.
Since(r) ==
    LET ended == {f \in Frames : \E p \in PageIds : page_table[p] = f /\ r.page_table[p] # f}
        began == {f \in Frames : \E p \in PageIds : page_table[p] # f /\ r.page_table[p] = f}
        kept == {x \in first_access : x[1] \notin ended /\ x[2] \notin ended}
    IN kept \cup {<<g, f>> : g \in Tracked(kept), f \in began} \cup {<<f, f>> : f \in began}

\* a call of the single thread run to its return, the residency order kept
OrderedCall(s) ==
    \E r \in {Forget(Result(s))} :
        /\ Result(s).pc[Main] = "ret"
        /\ page_table' = r.page_table
        /\ free_list' = r.free_list
        /\ replacer' = r.replacer
        /\ frames' = r.frames
        /\ disk' = r.disk
        /\ pt_readers' = r.pt_readers
        /\ pc' = r.pc
        /\ local' = r.local
        /\ guards' = r.guards
        /\ last_written' = r.last_written
        /\ deleted' = r.deleted
        /\ first_access' = Since(r)
        /\ UNCHANGED calls

ResidencyNext ==
    \/ /\ GuardsHeld(St) < MaxGuards
       /\ \E p \in PageIds, w \in BOOLEAN : OrderedCall(fetch_page_internal(St, Main, p, w))
    \/ /\ GuardsHeld(St) < MaxGuards /\ disk.page_count <= MaxPages
       /\ OrderedCall(new_page(St, Main))
    \/ \E p \in PageIds : OrderedCall(delete_page(St, Main, p))
    \/ \E g \in BagToSet(guards[Main]) : OrderedCall(drop(St, Main, g))

ResidencySpec == ResidencyInit /\ [][ResidencyNext]_vars

\* the frames that hold a resident page with pin count 0
Unpinned == {f \in Frames : Loaded(f) /\ ~is_pinned(frames[f])}

\* those of them whose page has been resident longest
Oldest == {f \in Unpinned : \A g \in Unpinned : <<f, g>> \in first_access}

\* C38: in a single-threaded run, when a fetch miss or new_page finds the free
\* list empty, the one page it evicts is the resident page with pin count 0
\* whose present residency began earliest: hits on a resident page do not
\* postpone its eviction, and a page that left the pool and was loaded again
\* comes after the pages that were resident when it was.
C38_VictimIsOldestResident ==
    (Len(free_list) = 0 /\ Unpinned # {} /\ GuardsHeld(St) < MaxGuards)
        => /\ Cardinality(Oldest) = 1
           /\ \A p \in PageIds, w \in BOOLEAN :
                 page_table[p] = None
                    => Displaced(FetchResult(p, w)) = {frames[f].page_id : f \in Oldest}
           /\ disk.page_count <= MaxPages
                 => Displaced(NewPageResult) = {frames[f].page_id : f \in Oldest}

\* both frames of a pool of 2 hold unpinned pages, no page was ever deleted,
\* and the page that has been resident longer is in the frame that was filled
\* second at the start: the other frame's page left by eviction and a page was
\* loaded into it since
C38_ReloadedBehindResident ==
    /\ pool_size = 2 /\ Len(free_list) = 0 /\ deleted = {}
    /\ Unpinned = Frames
    /\ Oldest = {0}
    /\ disk.page_count = MaxPages + 1

\* ---------------------------------------------------------------------------
\* delete_page against fetches of the same page

\* a fetch of page p that hit on frame f holds its pin: its guard is
\* outstanding, or the fetch is between frame.pin() and the page lock
HitOn(p, f) ==
    \/ \E x \in Outstanding : x[2].page_id = p /\ x[2].frame_id = f
    \/ \E u \in Threads :
          /\ pc[u] \in {"handle_cache_hit", "fetch_lock"}
          /\ local[u].page_id = p /\ local[u].frame_id = f

\* the section of delete_page under page_table.write(): it refuses with
\* PageNotPinned, the page still resident, when a fetch of the page holds a
\* pin, and it removes the page only when none does
DeleteSerialized ==
    [][\A t \in Threads, p \in PageIds :
          (/\ pc[t] = "idle" /\ page_table[p] # None
           /\ St' = Forget(delete_page(St, t, p)))
             => /\ HitOn(p, page_table[p])
                    => /\ page_table'[p] = page_table[p]
                       /\ delete_page(St, t, p).local[t].status = "PageNotPinned"
                /\ page_table'[p] = None => ~HitOn(p, page_table[p])]_vars

\* C39: delete_page(p) is serialized against the fetches of p: the delete
\* either sees a fetch's pin and refuses, or it succeeds and every fetch of p
\* had released its guard or takes the miss path afterwards, so that no
\* outstanding guard ever refers to a frame that delete_page has cleared and
\* pushed onto the free list.
C39_NoGuardOnFreedFrame ==
    \A x \in Outstanding : ~OnFreeList(x[2].frame_id)

====
